---- MODULE Spec2Model ----
(***************************************************************************)
(* Stop-sign right-of-way policy of one intersection                       *)
(* (control/src/stop_signs.rs): the assignment heuristic of                *)
(* ControlStopSign::new, the validator, and the query / mutation API of    *)
(* the resulting policy.                                                   *)
(*                                                                         *)
(* The map is handed to every operation by reference.  The facts that the  *)
(* operations of a live policy read (the intersection's turn list, the     *)
(* source lane of every turn, the conflict predicate, the signal flag and  *)
(* the connected roads) are state.  The facts that only `new` reads (the   *)
(* shape of every turn, the highway tag of every road) are drawn when      *)
(* `new` is called.                                                        *)
(*                                                                         *)
(* The line buffer of RunCommand (map_gui/src/tools/command.rs) is a       *)
(* second, independent machine with its own variables and specification.   *)
(***************************************************************************)
EXTENDS Integers, Sequences, FiniteSets, TLC

\* ------------------------------------------------------------- bounds
\* Turn ids of the map: 1..NumTurns.  The intersection lists some of
\* them; the others belong to other intersections of the same map.
NumTurns == 2
\* The most roads an intersection connects.  Every connected road brings
\* one lane, so lane k is the lane of road k.
MaxRoads == 3

\* RunCommand: window and line heights, characters per read, lines pushed.
MaxWindowHeight == 3
MaxLineHeight == 2
MaxChunk == 2
MaxArrived == 4

Turns == 1..NumTurns
Roads == 1..MaxRoads

\* ------------------------------------------------------------- domains
NoTag == "<none>"
\* The highway tags smart_assignment recognises.
HighwayTags ==
    {"motorway", "motorway_link", "trunk", "trunk_link", "primary",
     "primary_link", "secondary", "secondary_link", "tertiary",
     "tertiary_link", "residential", "footway", "unclassified", "road"}
\* The tags the roads of a modelled map carry: no tag, two recognised
\* tags of different rank, one tag the classifier does not know.
TagSample == {NoTag, "residential", "primary", "living_street"}

\* Turn shapes: TurnType::Crosswalk, and for the other turns what
\* is_right_turn / is_straight_turn answer.
Shapes == {"straight", "right", "left", "crosswalk"}

TurnPriority == {"Stop", "Yield", "Priority"}

VARIABLES
    i_has_traffic_signal,  \* map.get_i(i).has_traffic_signal
    i_roads,               \* map.get_i(i).roads.len()
    i_turns,               \* map.get_i(i).turns, in the order it lists them
    turn_src,              \* TurnID.src of every turn of the map
    conflict,              \* the unordered pairs Turn::conflicts_with holds for
    pc,                    \* "start" | "live" | "aborted"
    intersection,          \* ControlStopSign.intersection
    turns,                 \* ControlStopSign.turns
    changed,               \* ControlStopSign.changed
    ret,                   \* the last call: [op, arg, val]
    cmd,                   \* RunCommand: "none" | "running" | "replaced"
    max_capacity,          \* RunCommand.max_capacity
    lines,                 \* RunCommand.lines
    arrived                \* every line event has pushed, in arrival order

vars ==
    <<i_has_traffic_signal, i_roads, i_turns, turn_src, conflict,
      pc, intersection, turns, changed, ret,
      cmd, max_capacity, lines, arrived>>

mapvars == <<i_has_traffic_signal, i_roads, i_turns, turn_src, conflict>>

cmdvars == <<cmd, max_capacity, lines, arrived>>

\* ------------------------------------------------------------- helpers
Range(s) == {s[k] : k \in 1..Len(s)}

\* The sequences over S that list every element of S once.
Perms(S) == {s \in [1..Cardinality(S) -> S] : Range(s) = S}

\* All unordered pairs of turns, a turn with itself included.
TurnPairs == {{a, b} : a \in Turns, b \in Turns}

EmptyMap == << >>

IntersectionID == "i1"
NoIntersection == "none"

\* ------------------------------------------------------------- TurnPriority
\* Variant: Yield declared after Priority.
Discriminant_yield_last(p) ==
    CASE p = "Stop" -> 0
      [] p = "Yield" -> 2
      [] p = "Priority" -> 1

\* #[derive(PartialOrd)]: variants compare by declaration order.
Discriminant(p) ==
    CASE p = "Stop" -> 0
      [] p = "Yield" -> 1
      [] p = "Priority" -> 2

gt(a, b) == Discriminant(a) > Discriminant(b)

\* ------------------------------------------------------------- map model
\* Turn::conflicts_with, a symmetric predicate of two turns.
conflicts_with(c, a, b) == {a, b} \in c

is_right_turn(shape) == shape = "right"
is_straight_turn(shape) == shape = "straight"
is_crosswalk(shape) == shape = "crosswalk"

\* Variant: the walk over the turn list starts one element late.
all_turns_skip_first(list) ==
    IF Len(list) = 0 THEN list ELSE Tail(list)

\* map.get_i(intersection).turns
all_turns(list) == list

\* ------------------------------------------------------------- BTreeMap
insert(m, t, p) == [k \in DOMAIN m \cup {t} |-> IF k = t THEN p ELSE m[k]]

\* ------------------------------------------------------------- policy
\* Variant: the conflict test is dropped.
could_be_priority_turn_always(m, id, c) == TRUE

could_be_priority_turn(m, id, c) ==
    \A t \in DOMAIN m : ~(m[t] = "Priority" /\ conflicts_with(c, id, t))

\* The Priority turns of m, in key order; validate walks the pairs
\* (t1, t2) of this list in row order and stops at the first conflict.
priority_turns(m) == {t \in DOMAIN m : m[t] = "Priority"}

\* Variant: only the coverage of the turn set is checked.
validate_coverage_only(m, list, c) ==
    LET all == all_turns(list)
    IN  IF Cardinality(DOMAIN m) # Len(all)
           \/ \E k \in 1..Len(all) : all[k] \notin DOMAIN m
        THEN [val |-> "panic"]
        ELSE [val |-> "Ok"]

validate(m, list, c) ==
    LET all == all_turns(list)
        bad == {pr \in priority_turns(m) \X priority_turns(m) :
                   conflicts_with(c, pr[1], pr[2])}
        first == CHOOSE pr \in bad :
                   \A q \in bad : pr[1] < q[1] \/ (pr[1] = q[1] /\ pr[2] <= q[2])
    IN  IF Cardinality(DOMAIN m) # Len(all)
           \/ \E k \in 1..Len(all) : all[k] \notin DOMAIN m
        THEN [val |-> "panic"]
        ELSE IF bad # {}
        THEN [val |-> "Err", t1 |-> first[1], t2 |-> first[2]]
        ELSE [val |-> "Ok"]

all_way_stop(list) ==
    LET all == all_turns(list)
        RECURSIVE loop(_, _)
        loop(k, m) ==
            IF k > Len(all) THEN m
            ELSE loop(k + 1, insert(m, all[k], "Stop"))
    IN  loop(1, EmptyMap)

\* Variant: a candidate that fails validation is unwrapped, not replaced.
for_degenerate_and_deadend_unwrap(list, shape, c) ==
    LET all == all_turns(list)
        RECURSIVE loop(_, _)
        loop(k, m) ==
            IF k > Len(all) THEN m
            ELSE loop(k + 1,
                      insert(m, all[k],
                             IF is_crosswalk(shape[all[k]]) THEN "Stop"
                             ELSE "Priority"))
        ss == loop(1, EmptyMap)
        v == validate(ss, list, c)
    IN  IF v.val = "Ok"
        THEN [val |-> "ok", turns |-> ss, strategy |-> "degenerate"]
        ELSE [val |-> "panic", why |-> "validate"]

for_degenerate_and_deadend(list, shape, c) ==
    LET all == all_turns(list)
        RECURSIVE loop(_, _)
        loop(k, m) ==
            IF k > Len(all) THEN m
            ELSE loop(k + 1,
                      insert(m, all[k],
                             IF is_crosswalk(shape[all[k]]) THEN "Stop"
                             ELSE "Priority"))
        ss == loop(1, EmptyMap)
        v == validate(ss, list, c)
    IN  IF v.val = "panic" THEN [val |-> "panic", why |-> "validate"]
        ELSE IF v.val = "Err"
        THEN [val |-> "ok", turns |-> all_way_stop(list),
              strategy |-> "degenerate_fallback"]
        ELSE [val |-> "ok", turns |-> ss, strategy |-> "degenerate"]

\* Variant: a tag outside the table is ranked 0 like a missing one.
rank_default_zero(tag) ==
    CASE tag = "motorway" -> 20
      [] tag = "motorway_link" -> 19
      [] tag = "trunk" -> 17
      [] tag = "trunk_link" -> 16
      [] tag = "primary" -> 15
      [] tag = "primary_link" -> 14
      [] tag = "secondary" -> 13
      [] tag = "secondary_link" -> 12
      [] tag = "tertiary" -> 10
      [] tag = "tertiary_link" -> 9
      [] tag = "residential" -> 5
      [] tag = "footway" -> 1
      [] OTHER -> 0

\* The rank of a highway tag; -1 stands for the panic on an unknown tag.
rank(tag) ==
    CASE tag = NoTag -> 0
      [] tag = "motorway" -> 20
      [] tag = "motorway_link" -> 19
      [] tag = "trunk" -> 17
      [] tag = "trunk_link" -> 16
      [] tag = "primary" -> 15
      [] tag = "primary_link" -> 14
      [] tag = "secondary" -> 13
      [] tag = "secondary_link" -> 12
      [] tag = "tertiary" -> 10
      [] tag = "tertiary_link" -> 9
      [] tag = "residential" -> 5
      [] tag = "footway" -> 1
      [] tag = "unclassified" -> 0
      [] tag = "road" -> 0
      [] OTHER -> -1

\* The lanes touching the intersection, incoming chained with outgoing:
\* the lane of every connected road.
touching_lanes(roads) == 1..roads

\* Variant: only the lanes that lead into a turn are ranked.
smart_assignment_incoming_only(roads, list, shape, src, highway, c) ==
    LET lanes == touching_lanes(roads)
        rank_per_incoming_lane == [l \in lanes |-> rank(highway[l])]
        ranks == {rank_per_incoming_lane[src[t]] : t \in Range(list)}
        highest_rank ==
            CHOOSE r \in ranks \cup {0} : \A q \in ranks \cup {0} : r >= q
        all == all_turns(list)
        RECURSIVE loop(_, _)
        loop(k, m) ==
            IF k > Len(all) THEN m
            ELSE LET t == all[k]
                     pri ==
                         IF rank_per_incoming_lane[src[t]] = highest_rank
                         THEN IF (is_right_turn(shape[t])
                                    \/ is_straight_turn(shape[t]))
                                 /\ could_be_priority_turn(m, t, c)
                              THEN "Priority"
                              ELSE "Yield"
                         ELSE "Stop"
                 IN  loop(k + 1, insert(m, t, pri))
    IN  IF roads <= 2 THEN for_degenerate_and_deadend(list, shape, c)
        ELSE IF \E l \in lanes : rank(highway[l]) = -1
        THEN [val |-> "panic", why |-> "unknown_highway"]
        ELSE IF Cardinality(ranks) <= 1
        THEN [val |-> "ok", turns |-> all_way_stop(list),
              strategy |-> "uniform"]
        ELSE [val |-> "ok", turns |-> loop(1, EmptyMap),
              strategy |-> "ranked"]

\* Variant: a right turn is never given Priority.
smart_assignment_straight_only(roads, list, shape, src, highway, c) ==
    LET lanes == touching_lanes(roads)
        rank_per_incoming_lane == [l \in lanes |-> rank(highway[l])]
        ranks == {rank_per_incoming_lane[l] : l \in lanes}
        highest_rank ==
            CHOOSE r \in ranks \cup {0} : \A q \in ranks \cup {0} : r >= q
        all == all_turns(list)
        RECURSIVE loop(_, _)
        loop(k, m) ==
            IF k > Len(all) THEN m
            ELSE LET t == all[k]
                     pri ==
                         IF rank_per_incoming_lane[src[t]] = highest_rank
                         THEN IF is_straight_turn(shape[t])
                                 /\ could_be_priority_turn(m, t, c)
                              THEN "Priority"
                              ELSE "Yield"
                         ELSE "Stop"
                 IN  loop(k + 1, insert(m, t, pri))
    IN  IF roads <= 2 THEN for_degenerate_and_deadend(list, shape, c)
        ELSE IF \E l \in lanes : rank(highway[l]) = -1
        THEN [val |-> "panic", why |-> "unknown_highway"]
        ELSE IF Cardinality(ranks) = 1
        THEN [val |-> "ok", turns |-> all_way_stop(list),
              strategy |-> "uniform"]
        ELSE [val |-> "ok", turns |-> loop(1, EmptyMap),
              strategy |-> "ranked"]

smart_assignment(roads, list, shape, src, highway, c) ==
    LET lanes == touching_lanes(roads)
        rank_per_incoming_lane == [l \in lanes |-> rank(highway[l])]
        ranks == {rank_per_incoming_lane[l] : l \in lanes}
        highest_rank ==
            CHOOSE r \in ranks \cup {0} : \A q \in ranks \cup {0} : r >= q
        all == all_turns(list)
        RECURSIVE loop(_, _)
        loop(k, m) ==
            IF k > Len(all) THEN m
            ELSE LET t == all[k]
                     pri ==
                         IF rank_per_incoming_lane[src[t]] = highest_rank
                         THEN IF (is_right_turn(shape[t])
                                    \/ is_straight_turn(shape[t]))
                                 /\ could_be_priority_turn(m, t, c)
                              THEN "Priority"
                              ELSE "Yield"
                         ELSE "Stop"
                 IN  loop(k + 1, insert(m, t, pri))
    IN  IF roads <= 2 THEN for_degenerate_and_deadend(list, shape, c)
        ELSE IF \E l \in lanes : rank(highway[l]) = -1
        THEN [val |-> "panic", why |-> "unknown_highway"]
        ELSE IF Cardinality(ranks) = 1
        THEN [val |-> "ok", turns |-> all_way_stop(list),
              strategy |-> "uniform"]
        ELSE [val |-> "ok", turns |-> loop(1, EmptyMap),
              strategy |-> "ranked"]

\* Variant: the signal flag is not asserted.
new_without_signal_assert(signal, roads, list, shape, src, highway, c) ==
    LET ss == smart_assignment(roads, list, shape, src, highway, c)
    IN  IF ss.val = "panic" THEN ss
        ELSE IF validate(ss.turns, list, c).val = "Ok" THEN ss
        ELSE [val |-> "panic", why |-> "validate"]

new(signal, roads, list, shape, src, highway, c) ==
    IF signal THEN [val |-> "panic", why |-> "traffic_signal"]
    ELSE LET ss == smart_assignment(roads, list, shape, src, highway, c)
         IN  IF ss.val = "panic" THEN ss
             ELSE IF validate(ss.turns, list, c).val = "Ok" THEN ss
             ELSE [val |-> "panic", why |-> "validate"]

get_priority(m, turn) ==
    IF turn \in DOMAIN m THEN m[turn] ELSE "panic"

\* Variant: the entry is written before the precondition is asserted.
set_priority_write_first(m, dirty, turn, priority, c) ==
    IF priority = "Priority" /\ ~could_be_priority_turn(m, turn, c)
    THEN [val |-> "panic", turns |-> insert(m, turn, priority),
          changed |-> dirty]
    ELSE [val |-> "ok", turns |-> insert(m, turn, priority), changed |-> TRUE]

\* Variant: the flag is raised only when the stored value changes.
set_priority_dirty_on_change(m, dirty, turn, priority, c) ==
    IF priority = "Priority" /\ ~could_be_priority_turn(m, turn, c)
    THEN [val |-> "panic", turns |-> m, changed |-> dirty]
    ELSE [val |-> "ok", turns |-> insert(m, turn, priority),
          changed |-> dirty \/ turn \notin DOMAIN m \/ m[turn] # priority]

set_priority(m, dirty, turn, priority, c) ==
    IF priority = "Priority" /\ ~could_be_priority_turn(m, turn, c)
    THEN [val |-> "panic", turns |-> m, changed |-> dirty]
    ELSE [val |-> "ok", turns |-> insert(m, turn, priority), changed |-> TRUE]

is_changed(dirty) == dirty

\* Variant: the comparison with Stop is not strict.
is_priority_lane_not_strict(m, lane, src) ==
    \E t \in DOMAIN m : src[t] = lane /\ ~gt("Stop", m[t])

is_priority_lane(m, lane, src) ==
    \E t \in DOMAIN m : src[t] = lane /\ gt(m[t], "Stop")

\* ------------------------------------------------------------- behaviour
Init ==
    /\ i_has_traffic_signal \in BOOLEAN
    /\ i_roads \in Roads
    /\ i_turns \in UNION {Perms(S) : S \in SUBSET Turns}
    /\ turn_src \in [Turns -> 1..i_roads]
    /\ conflict \in SUBSET TurnPairs
    /\ pc = "start"
    /\ intersection = NoIntersection
    /\ turns = EmptyMap
    /\ changed = FALSE
    /\ ret = [op |-> "none"]
    /\ cmd = "none"
    /\ max_capacity = 0
    /\ lines = << >>
    /\ arrived = << >>

\* ControlStopSign::new(map, i); `traced` keeps the fields read in ret.
NewCall(shape, highway, traced) ==
    /\ pc = "start"
    /\ \E r \in {new(i_has_traffic_signal, i_roads, i_turns, shape,
                     turn_src, highway, conflict)} :
           /\ pc' = IF r.val = "ok" THEN "live" ELSE "aborted"
           /\ intersection' = IF r.val = "ok" THEN IntersectionID
                              ELSE NoIntersection
           /\ turns' = IF r.val = "ok" THEN r.turns ELSE EmptyMap
           /\ changed' = FALSE
           /\ ret' = [op |-> "new", val |-> r.val,
                      how |-> IF r.val = "ok" THEN r.strategy ELSE r.why,
                      arg |-> IF traced
                              THEN [shape |-> shape, highway |-> highway]
                              ELSE "map"]
    /\ UNCHANGED <<cmdvars, mapvars>>

\* What the call reads of the map besides the state: the shape of every
\* listed turn unless the signal assertion stops it first, the highway tag
\* of every connected road when more than two roads connect.  A field the
\* call never reads is not drawn.
ShapesRead ==
    IF i_has_traffic_signal THEN {EmptyMap}
    ELSE [Range(i_turns) -> Shapes]

HighwaysRead ==
    IF i_has_traffic_signal \/ i_roads <= 2 THEN {EmptyMap}
    ELSE [1..i_roads -> TagSample]

New ==
    /\ pc = "start"
    /\ \E shape \in ShapesRead : \E highway \in HighwaysRead :
           NewCall(shape, highway, FALSE)

\* The whole of the map around the intersection, read by the call or not:
\* the shape of every listed turn, the highway tag of every connected road.
ShapesOfMap == [Range(i_turns) -> Shapes]

HighwaysOfMap == [1..i_roads -> TagSample]

NewTraced ==
    /\ pc = "start"
    /\ \E shape \in ShapesOfMap : \E highway \in HighwaysOfMap :
           NewCall(shape, highway, TRUE)

SetPriority(turn, priority) ==
    /\ pc = "live"
    /\ \E r \in {set_priority(turns, changed, turn, priority, conflict)} :
           /\ turns' = r.turns
           /\ changed' = r.changed
           /\ ret' = [op |-> "set_priority", val |-> r.val]
    /\ UNCHANGED <<cmdvars, mapvars, pc, intersection>>

GetPriority(turn) ==
    /\ pc = "live"
    /\ ret' = [op |-> "get_priority", arg |-> turn,
               val |-> get_priority(turns, turn)]
    /\ UNCHANGED <<cmdvars, mapvars, pc, intersection, turns, changed>>

CouldBePriorityTurn(turn) ==
    /\ pc = "live"
    /\ ret' = [op |-> "could_be_priority_turn", arg |-> turn,
               val |-> could_be_priority_turn(turns, turn, conflict)]
    /\ UNCHANGED <<cmdvars, mapvars, pc, intersection, turns, changed>>

IsChanged ==
    /\ pc = "live"
    /\ ret' = [op |-> "is_changed", val |-> is_changed(changed)]
    /\ UNCHANGED <<cmdvars, mapvars, pc, intersection, turns, changed>>

IsPriorityLane(lane) ==
    /\ pc = "live"
    /\ ret' = [op |-> "is_priority_lane", arg |-> lane,
               val |-> is_priority_lane(turns, lane, turn_src)]
    /\ UNCHANGED <<cmdvars, mapvars, pc, intersection, turns, changed>>

Next ==
    \/ New
    \/ \E t \in Turns : \E p \in TurnPriority : SetPriority(t, p)
    \/ \E t \in Turns : GetPriority(t)
    \/ \E t \in Turns : CouldBePriorityTurn(t)
    \/ IsChanged
    \/ \E l \in 1..i_roads : IsPriorityLane(l)

Spec == Init /\ [][Next]_vars

\* The assignment engine alone, every input of the call kept in ret.
SpecNew == Init /\ [][NewTraced]_vars

\* validate applied to a candidate mapping over the listed turns, as new
\* and for_degenerate_and_deadend apply it before a policy is returned.
Validate(m) ==
    /\ pc = "start"
    /\ ret' = [op |-> "validate", arg |-> m,
               val |-> validate(m, i_turns, conflict)]
    /\ UNCHANGED <<cmdvars, mapvars, pc, intersection, turns, changed>>

ValidateAny == \E m \in [Range(i_turns) -> TurnPriority] : Validate(m)

\* The validator alone, on every candidate over the listed turns.
SpecValidate == Init /\ [][ValidateAny]_vars

\* ---------------------------------------------- RunCommand (command.rs)
NL == "\n"

\* What one read of a pipe yields: nothing, bytes that are not UTF-8, or a
\* string of at most MaxChunk characters.
Strings == UNION {[1..n -> {"a", NL}] : n \in 0..MaxChunk}

Raw ==
    {[kind |-> "None"], [kind |-> "NotUtf8"]}
        \cup {[kind |-> "Utf8", string |-> x] : x \in Strings}

\* string.split("\n"): the pieces between the separators, empty ones kept.
RECURSIVE split(_, _)
split(string, piece) ==
    IF string = << >> THEN <<piece>>
    ELSE IF Head(string) = NL THEN <<piece>> \o split(Tail(string), << >>)
    ELSE split(Tail(string), Append(piece, Head(string)))

\* The lines one raw read adds to new_lines.
lines_of(raw) ==
    IF raw.kind # "Utf8" THEN << >>
    ELSE IF raw.string = << >> THEN << >>
    ELSE split(raw.string, << >>)

pop_front(q) == IF q = << >> THEN q ELSE Tail(q)

\* One round of the loop over new_lines.
push_line(q, capacity, line) ==
    Append(IF Len(q) = capacity THEN pop_front(q) ELSE q, line)

RECURSIVE push_lines(_, _, _)
push_lines(q, capacity, new_lines) ==
    IF new_lines = << >> THEN q
    ELSE push_lines(push_line(q, capacity, Head(new_lines)), capacity,
                    Tail(new_lines))

\* (0.8 * window_height / default_line_height) as usize
capacity_of(window_height, line_height) ==
    (4 * window_height) \div (5 * line_height)

InitCommand ==
    /\ i_has_traffic_signal = FALSE
    /\ i_roads = 1
    /\ i_turns = << >>
    /\ turn_src = [t \in Turns |-> 1]
    /\ conflict = {}
    /\ pc = "start"
    /\ intersection = NoIntersection
    /\ turns = EmptyMap
    /\ changed = FALSE
    /\ ret = [op |-> "none"]
    /\ cmd = "none"
    /\ max_capacity = 0
    /\ lines = << >>
    /\ arrived = << >>

\* RunCommand::new with a process that started.
RunCommandNew(window_height, line_height) ==
    /\ cmd = "none"
    /\ cmd' = "running"
    /\ max_capacity' = capacity_of(window_height, line_height)
    /\ lines' = << >>
    /\ arrived' = << >>
    /\ UNCHANGED <<mapvars, pc, intersection, turns, changed, ret>>

\* RunCommand::event: nothing on an event that is not an update; otherwise
\* the lines read from stdout then stderr are pushed, and when the process
\* has exited the buffer is drained into the popup that replaces the state.
Event(update, stdout, stderr, exited) ==
    /\ cmd = "running"
    /\ \E new_lines \in {lines_of(stdout) \o lines_of(stderr)} :
          /\ Len(arrived) + Len(new_lines) <= MaxArrived
          /\ IF ~update
             THEN UNCHANGED <<cmd, lines, arrived>>
             ELSE /\ arrived' = arrived \o new_lines
                  /\ lines' = IF exited THEN << >>
                              ELSE push_lines(lines, max_capacity, new_lines)
                  /\ cmd' = IF exited THEN "replaced" ELSE "running"
    /\ UNCHANGED <<mapvars, pc, intersection, turns, changed, ret,
                   max_capacity>>

NextCommand ==
    \/ \E h \in 0..MaxWindowHeight : \E l \in 1..MaxLineHeight :
           RunCommandNew(h, l)
    \/ \E update \in BOOLEAN : \E stdout \in Raw : \E stderr \in Raw :
         \E exited \in BOOLEAN :
           Event(update, stdout, stderr, exited)

SpecCommand == InitCommand /\ [][NextCommand]_vars

\* ------------------------------------------------------------- properties
\* I2: no two distinct turns mapped to Priority conflict.
NoConflictingPriority(m, c) ==
    \A a \in DOMAIN m : \A b \in DOMAIN m :
        (a # b /\ m[a] = "Priority" /\ m[b] = "Priority")
            => ~conflicts_with(c, a, b)

Returned == pc = "live" /\ ret.op = "new"

\* I1: the keys of the stored mapping are the turns the intersection lists.
CoversTurnSet == DOMAIN turns = Range(i_turns)

\* The step is a set_priority(t, p) call.
SetPriorityStep(t, p) == ret'.op = "set_priority" /\ SetPriority(t, p)

\* C1: in every policy new returns, whichever strategy produced it, no two
\* distinct turns mapped to Priority conflict.
C1_ReturnedPolicyHasNoConflictingPriority ==
    Returned => NoConflictingPriority(turns, conflict)

\* The ranked strategy returned a policy for two conflicting turns: one
\* got Priority, the other did not.
C1_Witness ==
    /\ Returned
    /\ ret.how = "ranked"
    /\ \E a \in DOMAIN turns : \E b \in DOMAIN turns :
          /\ a # b
          /\ conflicts_with(conflict, a, b)
          /\ turns[a] = "Priority"
          /\ turns[b] = "Yield"

\* C2: in every policy new returns, the keys of the mapping are exactly
\* the turns the intersection lists.
C2_ReturnedPolicyCoversTurnSet ==
    Returned => CoversTurnSet

\* The all-way-stop fallback of the degenerate strategy returned a policy
\* for an intersection of two turns.
C2_Witness ==
    /\ Returned
    /\ ret.how = "degenerate_fallback"
    /\ Len(i_turns) = 2
    /\ \A t \in Range(i_turns) : t \in DOMAIN turns /\ turns[t] = "Stop"

\* C3: I2 holds of the stored mapping after new and after every
\* set_priority call, accepted or rejected.
C3_StoreKeepsNoConflictingPriority ==
    pc = "live" => NoConflictingPriority(turns, conflict)

\* An accepted set_priority left two distinct turns at Priority.
C3_Witness ==
    /\ pc = "live"
    /\ CoversTurnSet
    /\ ret.op = "set_priority"
    /\ ret.val = "ok"
    /\ \E a \in DOMAIN turns : \E b \in DOMAIN turns :
          a # b /\ turns[a] = "Priority" /\ turns[b] = "Priority"

\* C4: set_priority(turn, Priority) on a turn that conflicts with a turn
\* currently mapped to Priority is rejected, and the mapping and the dirty
\* flag are what they were before the call.
C4_RejectedPriorityLeavesPolicy ==
    [][\A t \in Turns :
          (/\ SetPriorityStep(t, "Priority")
           /\ \E q \in DOMAIN turns :
                 turns[q] = "Priority" /\ conflicts_with(conflict, t, q))
          => (ret'.val = "panic" /\ turns' = turns /\ changed' = changed)]_vars

\* A set_priority call was rejected on a policy nobody had edited: a turn
\* is at Priority, a turn conflicting with it is not, the flag is down.
C4_Witness ==
    /\ pc = "live"
    /\ CoversTurnSet
    /\ ret.op = "set_priority"
    /\ ret.val = "panic"
    /\ ~changed
    /\ \E t \in DOMAIN turns : \E q \in DOMAIN turns :
          /\ t # q
          /\ turns[q] = "Priority"
          /\ turns[t] # "Priority"
          /\ conflicts_with(conflict, t, q)

\* C5: set_priority with a turn the intersection does not list is rejected
\* for every priority value: no entry is added, the dirty flag is unchanged.
C5_UnknownTurnIsRejected ==
    [][\A t \in Turns \ Range(i_turns) : \A p \in TurnPriority :
          SetPriorityStep(t, p)
          => (ret'.val = "panic" /\ turns' = turns /\ changed' = changed)]_vars

\* C6: the dirty flag is down when new returns, goes up at every accepted
\* set_priority (also one that writes the stored value again), never goes
\* down, is left alone by a rejected set_priority, and is what is_changed
\* reports.
C6_DirtyFlagIsOneWay ==
    [][/\ (ret'.op = "new" /\ ret'.val = "ok") => ~changed'
       /\ (ret'.op = "set_priority" /\ ret'.val = "ok") => changed'
       /\ (ret'.op = "set_priority" /\ ret'.val = "panic")
             => changed' = changed
       /\ changed => changed'
       /\ ret'.op = "is_changed" => ret'.val = changed]_vars

\* An edited policy, and a set_priority call it rejected afterwards.
C6_Witness ==
    /\ pc = "live"
    /\ CoversTurnSet
    /\ changed
    /\ ret.op = "set_priority"
    /\ ret.val = "panic"

C8_PriorityLaneIffYieldOrPriorityTurn ==
    (pc = "live" /\ ret.op = "is_priority_lane")
        => ret.val = (\E t \in DOMAIN turns :
                         /\ turn_src[t] = ret.arg
                         /\ turns[t] \in {"Yield", "Priority"})

\* is_priority_lane answered false for a lane that sources a turn, all of
\* its turns being Stop.
C8_Witness ==
    /\ pc = "live"
    /\ CoversTurnSet
    /\ ret.op = "is_priority_lane"
    /\ ret.val = FALSE
    /\ \E t \in DOMAIN turns : turn_src[t] = ret.arg
    /\ \A t \in DOMAIN turns : turn_src[t] = ret.arg => turns[t] = "Stop"

\* C9: Stop < Yield < Priority is a total order: two distinct values are
\* comparable one way only, the order is transitive, Priority > Yield and
\* Yield > Stop; the priorities a policy stores compare accordingly.
C9_PriorityIsTotallyOrdered ==
    /\ \A a \in TurnPriority : \A b \in TurnPriority :
          /\ a # b => (gt(a, b) \/ gt(b, a))
          /\ ~(gt(a, b) /\ gt(b, a))
          /\ \A c \in TurnPriority : (gt(a, b) /\ gt(b, c)) => gt(a, c)
    /\ gt("Priority", "Yield")
    /\ gt("Yield", "Stop")
    /\ \A t \in DOMAIN turns :
          /\ turns[t] = "Stop" <=> ~gt(turns[t], "Stop")
          /\ turns[t] = "Priority" <=> gt(turns[t], "Yield")

\* A comparison with Stop decided by a Yield: is_priority_lane answered
\* true for a lane whose turns are none at Priority.
C9_Witness ==
    /\ pc = "live"
    /\ CoversTurnSet
    /\ ret.op = "is_priority_lane"
    /\ ret.val = TRUE
    /\ \A t \in DOMAIN turns : turn_src[t] = ret.arg => turns[t] # "Priority"

\* C10: new fails for a signal-controlled intersection and builds no
\* policy; a policy exists only for an intersection without a signal.
C10_NoPolicyForSignalisedIntersection ==
    i_has_traffic_signal =>
        /\ pc # "live"
        /\ turns = EmptyMap
        /\ intersection = NoIntersection
        /\ ret.op = "new" => ret.val = "panic"

\* new was called for a signal-controlled intersection that lists turns.
C10_Witness ==
    /\ i_has_traffic_signal
    /\ pc = "aborted"
    /\ ret.op = "new"
    /\ Len(i_turns) > 0

\* --------------------------------------------- properties of the engine
\* The state follows a traced call of new on an unsignalised intersection.
TracedNew == ret.op = "new" /\ ~i_has_traffic_signal

AllStop == [t \in Range(i_turns) |-> "Stop"]

\* The candidate of the degenerate strategy, from the shapes of the call.
DegenerateCandidate ==
    [t \in Range(i_turns) |->
        IF ret.arg.shape[t] = "crosswalk" THEN "Stop" ELSE "Priority"]

\* The validation the code runs on a candidate: no pair of Priority turns
\* it walks, a turn paired with itself included, conflicts.
PassesValidation(m) ==
    \A a \in DOMAIN m : \A b \in DOMAIN m :
        (m[a] = "Priority" /\ m[b] = "Priority")
            => ~conflicts_with(conflict, a, b)

TagsClassified == \A l \in 1..i_roads : rank(ret.arg.highway[l]) # -1

\* Every lane touching the intersection, incoming or outgoing, has one rank.
OneRank ==
    \A l1 \in 1..i_roads : \A l2 \in 1..i_roads :
        rank(ret.arg.highway[l1]) = rank(ret.arg.highway[l2])

\* C12: with more than two connected roads the uniform strategy is taken
\* exactly when all touching lanes, incoming and outgoing together, have
\* the same rank, and it maps every turn to Stop.
C12_OneRankMeansAllStop ==
    (TracedNew /\ i_roads > 2 /\ TagsClassified) =>
        /\ (ret.how = "uniform") <=> OneRank
        /\ OneRank => (ret.val = "ok" /\ pc = "live" /\ turns = AllStop)

\* Three roads of one rank, one of them leading into no turn, and two
\* turns that would otherwise qualify for Priority.
C12_Witness ==
    /\ TracedNew
    /\ i_roads > 2
    /\ ret.how = "uniform"
    /\ Len(i_turns) = 2
    /\ \A t \in Range(i_turns) : ret.arg.shape[t] = "straight"
    /\ \E l \in 1..i_roads : \A t \in Range(i_turns) : turn_src[t] # l
    /\ turns = AllStop

MaxRank ==
    CHOOSE r \in {rank(ret.arg.highway[l]) : l \in 1..i_roads} :
        \A l \in 1..i_roads : r >= rank(ret.arg.highway[l])

\* C13: in a policy of the ranked strategy a turn whose source lane has
\* the highest rank is Priority exactly when it is straight or right and
\* conflicts with no turn given Priority earlier in the pass, and Yield
\* otherwise; a turn from a lane of lower rank is Stop.
C13_RankedAssignment ==
    (TracedNew /\ ret.how = "ranked") =>
        \A k \in 1..Len(i_turns) :
            LET t == i_turns[k]
                earlier == {i_turns[j] : j \in 1..(k - 1)}
            IN  turns[t] =
                  IF rank(ret.arg.highway[turn_src[t]]) = MaxRank
                  THEN IF /\ ret.arg.shape[t] \in {"straight", "right"}
                          /\ \A u \in earlier :
                                turns[u] = "Priority"
                                    => ~conflicts_with(conflict, t, u)
                       THEN "Priority"
                       ELSE "Yield"
                  ELSE "Stop"

\* Two conflicting turns from the highest-ranked lane, a right turn and a
\* straight one: the first of the pass got Priority, the second Yield.
C13_Witness ==
    /\ TracedNew
    /\ ret.how = "ranked"
    /\ Len(i_turns) = 2
    /\ ret.arg.shape[i_turns[1]] = "right"
    /\ ret.arg.shape[i_turns[2]] = "straight"
    /\ conflicts_with(conflict, i_turns[1], i_turns[2])
    /\ turns[i_turns[1]] = "Priority"
    /\ turns[i_turns[2]] = "Yield"

\* The rank table, tag by tag.
RankTable ==
    { <<"motorway", 20>>, <<"motorway_link", 19>>, <<"trunk", 17>>,
      <<"trunk_link", 16>>, <<"primary", 15>>, <<"primary_link", 14>>,
      <<"secondary", 13>>, <<"secondary_link", 12>>, <<"tertiary", 10>>,
      <<"tertiary_link", 9>>, <<"residential", 5>>, <<"footway", 1>>,
      <<"unclassified", 0>>, <<"road", 0>> }

\* A tag of the call that the classifier does not know.
UnknownTag(tag) == tag # NoTag /\ tag \notin HighwayTags

\* C14 (as the code has it): the classifier ranks the fourteen tags by
\* the table and a missing tag 0; with more than two connected roads a
\* road with any other tag aborts new, no policy is returned and no rank
\* is defaulted.
C14_UnknownTagAbortsRankedBuild ==
    /\ \A e \in RankTable : rank(e[1]) = e[2]
    /\ {e[1] : e \in RankTable} = HighwayTags
    /\ rank(NoTag) = 0
    /\ (TracedNew /\ i_roads > 2
          /\ \E l \in 1..i_roads : UnknownTag(ret.arg.highway[l]))
         => (ret.val = "panic" /\ ret.how = "unknown_highway"
               /\ pc = "aborted" /\ turns = EmptyMap)

\* Three roads, one of them tagged outside the table: the call aborted.
C14_Witness ==
    /\ TracedNew
    /\ i_roads > 2
    /\ \E l \in 1..i_roads : UnknownTag(ret.arg.highway[l])
    /\ \E l \in 1..i_roads : ret.arg.highway[l] = "primary"
    /\ pc = "aborted"

\* C14 (as stated): building a policy for an intersection that touches a
\* road with an unrecognised tag aborts instead of returning a policy.
C14_UnknownTagAlwaysAborts ==
    (TracedNew /\ \E l \in 1..i_roads : UnknownTag(ret.arg.highway[l]))
        => ret.val = "panic"

\* The sequence of the turns of S in ascending identifier order.
Ascending(S) ==
    CHOOSE q \in Perms(S) : \A j \in 1..(Len(q) - 1) : q[j] < q[j + 1]

\* C15: the policy new builds is the one built by processing the turns in
\* ascending identifier order, whatever the order of the intersection's
\* turn list.
C15_ResultIndependentOfListOrder ==
    TracedNew =>
        \E r \in {new(i_has_traffic_signal, i_roads,
                      Ascending(Range(i_turns)), ret.arg.shape, turn_src,
                      ret.arg.highway, conflict)} :
            /\ ret.val = r.val
            /\ r.val = "ok" => turns = r.turns

\* The step is a get_priority(t) call.
GetPriorityStep(t) == ret'.op = "get_priority" /\ GetPriority(t)

\* C16: get_priority(turn) returns the stored priority when turn is one of
\* the intersection's turns, fails when it is not, and changes neither
\* the mapping nor the dirty flag.
C16_GetPriorityReadsListedTurnsOnly ==
    [][\A t \in Turns :
          GetPriorityStep(t) =>
              /\ turns' = turns
              /\ changed' = changed
              /\ ret'.val = IF t \in Range(i_turns) THEN turns[t]
                            ELSE "panic"]_vars

C19_AcceptedSetPriorityTouchesOneEntry ==
    [][\A t \in Turns : \A p \in TurnPriority :
          (SetPriorityStep(t, p) /\ ret'.val = "ok") =>
              /\ DOMAIN turns' = DOMAIN turns
              /\ turns'[t] = p
              /\ \A u \in DOMAIN turns : u # t => turns'[u] = turns[u]
              /\ changed'
              /\ intersection' = intersection]_vars

\* The last n elements of q.
LastN(q, n) == SubSeq(q, Len(q) - n + 1, Len(q))

\* C20: whatever max_capacity is, 0 included, RunCommand never retains
\* more than max_capacity lines, and the lines it retains are the most
\* recently received ones in arrival order.
C20_BufferNeverExceedsCapacity ==
    cmd = "running" =>
        /\ Len(lines) <= max_capacity
        /\ lines = LastN(arrived,
                         IF Len(arrived) < max_capacity THEN Len(arrived)
                         ELSE max_capacity)

====
